---- MODULE Spec2Model ----
(***************************************************************************)
(* Bagging, out-of-bag scoring, voting and the feature-importance chart as *)
(* the notebook 5-week5/2-ensemble-methods-bagging.ipynb runs them.  Apart *)
(* from the plotting statements the notebook holds no algorithm of its     *)
(* own: every operation is a call into scikit-learn (BaggingClassifier,    *)
(* VotingClassifier).  Each definition below models what the call at the   *)
(* cited notebook lines does, i.e. the library routine the call executes.  *)
(*                                                                         *)
(* Abstractions:                                                           *)
(*  - the pseudo-random generator is not Mersenne Twister: the sub-stream  *)
(*    of estimator i under the fixed random_state is an arbitrary but      *)
(*    fixed draw, chosen the first time it is consumed and remembered in   *)
(*    `drawn` (so the same seed replays the same draw);                    *)
(*  - a fitted DecisionTreeClassifier() is a function from the rows of     *)
(*    X_train to class indices: the row's own class on rows of its         *)
(*    bootstrap sample (fully grown tree, pure leaves), some class of its  *)
(*    sample on the rows it never saw;                                     *)
(*  - probabilities are integers in 0..Scale (units of 1/Scale); a mean    *)
(*    over the predictors is compared through the sum.                     *)
(*  - the coefficients of a fitted LogisticRegression() are left out:     *)
(*    such a predictor is its sub-stream and its bootstrap sample;         *)
(*  - feature importances are integers in 0..MaxImp, in units of their sum.*)
(***************************************************************************)
EXTENDS Integers, Sequences, FiniteSets, TLC

\* ---------------------------------------------------------------- bounds
MaxRows == 2
MaxK == 2
MaxVoters == 3
Scale == 3
MaxImp == 2

\* The label universe of the datasets and the fitted objects of one run.
Labels == {0, 1, 2}
\* The two classes make_moons labels its points with.
MoonLabels == {0, 1}
\* The bagging ensemble of decision trees fitted with n_jobs=-1 (parallel) on
\* the split of make_moons(n_samples=500): with max_samples and without
\* oob_score in one cell, with oob_score=True in a later one.
Objs == {"bag_clf"}

VARIABLES y_train, n_estimators, max_samples, oob_score, drawn, ens, vClasses, vPreds, vOut,
          x_test, y_pred, importances, sorted_idx, chart

vars == <<y_train, n_estimators, max_samples, oob_score, drawn, ens, vClasses, vPreds, vOut,
          x_test, y_pred, importances, sorted_idx, chart>>
trainVars == <<y_train, n_estimators, max_samples, oob_score, drawn, ens>>
voteVars == <<vClasses, vPreds, vOut>>
\* The held-out instances X_test and the results of the predict calls of the
\* bag_tree cell.
useVars == <<x_test, y_pred>>
\* The feature-importance chart.
plotVars == <<importances, sorted_idx, chart>>

\* ------------------------------------------------------------- helpers
RECURSIVE SumTo(_, _)
SumTo(f, k) == IF k = 0 THEN 0 ELSE f[k] + SumTo(f, k - 1)

RECURSIVE SortSet(_)
SortSet(S) ==
  IF S = {} THEN <<>>
  ELSE LET m == CHOOSE x \in S : \A z \in S : x <= z
       IN <<m>> \o SortSet(S \ {m})

\* np.unique(y): the sorted distinct training labels (classes_).
ClassesOf(lab) == SortSet({lab[r] : r \in 1..Len(lab)})

\* The class index (1-based) of a label: y is encoded before fitting.
IndexOf(cls, v) == CHOOSE k \in 1..Len(cls) : cls[k] = v

Encode(lab) == [r \in 1..Len(lab) |-> IndexOf(ClassesOf(lab), lab[r])]

\* np.argmax of v[1..m]: a left-to-right scan keeping the first maximum.
RECURSIVE ArgMaxScan(_, _, _, _)
ArgMaxScan(v, m, k, best) ==
  IF k > m THEN best
  ELSE ArgMaxScan(v, m, k + 1, IF v[k] > v[best] THEN k ELSE best)

ArgMax(v, m) == ArgMaxScan(v, m, 2, 1)

OneHot(nc, c) == [k \in 1..nc |-> IF k = c THEN Scale ELSE 0]

\* ------------------------------------------------ the training set
\* y_train: the labels of the training rows 1..N (X_train is carried by the
\* row index).
N == Len(y_train)
classes_ == ClassesOf(y_train)
NC == Len(classes_)
yEnc == Encode(y_train)
Instances == 1..N

\* ------------------------------------------------ bootstrap and base fit
\* A bootstrap sample: s draws with replacement from rows 1..n, kept as the
\* count of each row (np.bincount of the drawn indices).
BagsOf(n, s) == {b \in [1..n -> 0..s] : SumTo(b, n) = s}

InBag(b) == {r \in 1..N : b[r] > 0}

\* A fully grown DecisionTreeClassifier fitted on the rows of b: what it
\* predicts for the training rows and for the held-out instances.
TreesOf(b) ==
  LET enc == yEnc
      inb == InBag(b)
      seen == {enc[r] : r \in inb}
  IN {t \in [Instances \cup x_test -> seen] : \A r \in inb : t[r] = enc[r]}

\* Every (bootstrap sample, fitted tree) one sub-stream can produce.
Fits ==
  UNION {{[bag |-> b, tree |-> t] : t \in TreesOf(b)} : b \in BagsOf(N, max_samples)}


\* random_state=42: estimator i's generator is seeded with seeds[i], the i-th
\* draw of a generator freshly seeded with 42, so sub-stream s always replays
\* the draw remembered for it.
Seeded(s, e) == drawn[s] = <<>> \/ drawn[s] = <<e>>

SharedStreamIndex(i, ndone) == ndone + 1

\* The sub-stream the task building estimator i consumes: seeds[i], however
\* many tasks have completed before it.
StreamIndex(i, ndone) == i

\* ------------------------------------------------ aggregation
\* The class-probability vectors one predictor can return for an instance.
ProbaVecs(nc) == {p \in [1..nc -> 0..Scale] : SumTo(p, nc) = Scale}

\* estimator.predict: the class of highest probability, the first on a tie.
PredictOf(p, nc) == ArgMax(p, nc)

\* Per class, the probabilities summed over the predictors (K times the mean).
SumProba(preds, nc) ==
  [c \in 1..nc |-> SumTo([i \in 1..Len(preds) |-> preds[i][c]], Len(preds))]

\* np.bincount of the predicted class indices.
BinCount(preds, nc) ==
  [c \in 1..nc |-> Cardinality({i \in 1..Len(preds) : PredictOf(preds[i], nc) = c})]

\* classes_.take(index)
Take(cls, k) == cls[k]

BaggingPredictByVote(cls, preds) ==
  Take(cls, ArgMax(BinCount(preds, Len(cls)), Len(cls)))

\* BaggingClassifier.predict with a base estimator that has predict_proba
\* (DecisionTreeClassifier, LogisticRegression): the class of highest mean
\* predicted probability.
BaggingPredict(cls, preds) ==
  Take(cls, ArgMax(SumProba(preds, Len(cls)), Len(cls)))

\* VotingClassifier(voting='hard').predict: argmax of the bincount of the votes.
VotingHard(cls, preds) ==
  Take(cls, ArgMax(BinCount(preds, Len(cls)), Len(cls)))

VotingSoftFirstOnly(cls, preds) ==
  Take(cls, ArgMax(preds[1], Len(cls)))

\* VotingClassifier(voting='soft').predict: argmax of the averaged probabilities.
VotingSoft(cls, preds) ==
  Take(cls, ArgMax(SumProba(preds, Len(cls)), Len(cls)))

\* ------------------------------------------------ fit: validation
InvalidNoEstimatorCheck(k, s, n) == s < 1 \/ n = 0 \/ s > n

\* fit raises ValueError (before any estimator is built) on n_estimators < 1,
\* max_samples < 1, an empty training set, or max_samples > n_samples.
Invalid(k, s, n) == k < 1 \/ s < 1 \/ n = 0 \/ s > n

\* An unfitted ensemble. `done` holds the results of the per-estimator tasks,
\* `raised` the tasks whose exception ended the call.
New ==
  [status |-> "new", done |-> [i \in 1..n_estimators |-> <<>>], inOrder |-> TRUE,
   raised |-> {}, estimators_ |-> <<>>, oob |-> <<>>]

\* ------------------------------------------------ out-of-bag score
InBagMask(b, r) == b[r] > 0

\* mask = ~indices_to_mask(samples): row r is out-of-bag for a sample that
\* never drew it.
OobMask(b, r) == b[r] = 0

NeverEmpty(b) == FALSE

\* X[mask] has no row: the sample drew every row. predict_proba raises
\* ValueError on an array of 0 samples.
EmptyMask(b) == \A r \in 1..N : ~OobMask(b, r)

\* predictions[mask] += estimator.predict_proba(X[mask]), over all
\* estimators: <<predictions>>, or <<>> when a predict_proba raises.
OobPredictions(ests) ==
  LET nc == NC
  IN IF \E i \in 1..Len(ests) : EmptyMask(ests[i].bag) THEN <<>>
     ELSE <<[r \in 1..N |->
              [c \in 1..nc |->
                SumTo([i \in 1..Len(ests) |->
                         IF OobMask(ests[i].bag, r)
                         THEN OneHot(nc, ests[i].tree[r])[c] ELSE 0],
                      Len(ests))]]>>

\* (predictions.sum(axis=1) == 0).any(): "Some inputs do not have OOB scores".
NoOobRow(p) == \E r \in 1..N : SumTo(p[r], NC) = 0

RowsWithOob(p) == {r \in 1..N : SumTo(p[r], NC) > 0}

\* accuracy_score(y, np.argmax(predictions, axis=1)) runs over every row.
ScoredRows(p) == 1..N

\* _set_oob_score: <<>> when it raises, else oob_decision_function_
\* (unnormalised), oob_score_ (correct / total) and the warning.
SetOobScore(ests) ==
  LET ps == OobPredictions(ests)
      nc == NC
      enc == yEnc
  IN IF ps = <<>> THEN <<>>
     ELSE LET p == ps[1]
              rows == ScoredRows(p)
          IN <<[predictions |-> p,
                correct |-> Cardinality({r \in rows : ArgMax(p[r], nc) = enc[r]}),
                total |-> Cardinality(rows),
                warned |-> NoOobRow(p)]>>

\* ------------------------------------------------ fit: the actions
CollectDropLast(done, k) == SubSeq([i \in 1..k |-> done[i][1]], 1, k - 1)

\* The results of the tasks, concatenated in estimator order.
Collect(done, k) == [i \in 1..k |-> done[i][1]]

Finished(o) == ens[o].status \in {"fitted", "error"}

NDone(o) == Cardinality({i \in 1..n_estimators : ens[o].done[i] # <<>>})

\* The estimator built from draw e of sub-stream s.
Built(s, e) == [stream |-> s, bag |-> e.bag, tree |-> e.tree]

\* The state after the reduction: estimators_ is assigned, then
\* _set_oob_score runs when oob_score=True; when it raises, fit raises and
\* the object keeps estimators_ without a score.
Reduced(done, inorder) ==
  LET ests == Collect(done, n_estimators)
      oob == IF oob_score THEN SetOobScore(ests) ELSE <<>>
  IN [status |-> IF oob_score /\ oob = <<>> THEN "error" ELSE "fitted",
      done |-> done, inOrder |-> inorder, raised |-> {},
      estimators_ |-> ests, oob |-> oob]

SkipFailed(e, i) ==
  LET idx == SortSet({k \in 1..Len(e.done) : e.done[k] # <<>>})
  IN [e EXCEPT !.status = "fitted", !.raised = {i},
               !.estimators_ = [k \in 1..Len(idx) |-> e.done[idx[k]][1]]]

\* The ensemble e after the fit of estimator i raised: the exception leaves
\* fit, which has not assigned estimators_; the results of the other tasks
\* are dropped.
FailFast(e, i) == [e EXCEPT !.status = "error", !.raised = {i}]

\* bag_clf.fit(X_train, y_train) with n_jobs=-1, up to the start of the
\* parallel loop.
Fit ==
  /\ ens["bag_clf"].status = "new"
  /\ ens' = [ens EXCEPT !["bag_clf"].status =
               IF Invalid(n_estimators, max_samples, N) THEN "error" ELSE "fitting"]
  /\ UNCHANGED <<y_train, n_estimators, max_samples, oob_score, drawn>>
  /\ UNCHANGED voteVars
  /\ UNCHANGED useVars
  /\ UNCHANGED plotVars

\* One task of the parallel loop: draw the bootstrap sample of estimator i
\* from its own sub-stream and fit a clone of the base estimator on it.
BuildEstimator(i) ==
  /\ ens["bag_clf"].status = "fitting"
  /\ ens["bag_clf"].done[i] = <<>>
  /\ LET s == StreamIndex(i, NDone("bag_clf"))
     IN \E e \in {f \in Fits : Seeded(s, f)} :
          /\ drawn' = [drawn EXCEPT ![s] = <<e>>]
          /\ ens' = [ens EXCEPT
               !["bag_clf"].done[i] = <<Built(s, e)>>,
               !["bag_clf"].inOrder = @ /\ (i = NDone("bag_clf") + 1)]
  /\ UNCHANGED <<y_train, n_estimators, max_samples, oob_score>>
  /\ UNCHANGED voteVars
  /\ UNCHANGED useVars
  /\ UNCHANGED plotVars

\* One task of the parallel loop raises: the fit of the clone of the base
\* estimator fails (the library catches no exception of a task).
BuildEstimatorRaises(i) ==
  /\ ens["bag_clf"].status = "fitting"
  /\ ens["bag_clf"].done[i] = <<>>
  /\ ens' = [ens EXCEPT !["bag_clf"] = FailFast(@, i)]
  /\ UNCHANGED <<y_train, n_estimators, max_samples, oob_score, drawn>>
  /\ UNCHANGED voteVars
  /\ UNCHANGED useVars
  /\ UNCHANGED plotVars

\* The reduction after the parallel loop.
FitReduce ==
  /\ ens["bag_clf"].status = "fitting"
  /\ NDone("bag_clf") = n_estimators
  /\ ens' = [ens EXCEPT !["bag_clf"] =
               Reduced(ens["bag_clf"].done, ens["bag_clf"].inOrder)]
  /\ UNCHANGED <<y_train, n_estimators, max_samples, oob_score, drawn>>
  /\ UNCHANGED voteVars
  /\ UNCHANGED useVars
  /\ UNCHANGED plotVars

\* The draws a sequential loop over estimators 1..k can make, each estimator
\* from its sub-stream.
RECURSIVE SeqDrawsFrom(_, _)
SeqDrawsFrom(fits, k) ==
  IF k = 0 THEN {<<>>}
  ELSE {Append(es, e) : es \in SeqDrawsFrom(fits, k - 1),
                        e \in {f \in fits : Seeded(StreamIndex(k, k - 1), f)}}

SeqDraws(k) == LET fits == Fits IN SeqDrawsFrom(fits, k)

Init ==
  /\ y_train \in {<<>>} \cup UNION {[1..n -> MoonLabels] : n \in 1..MaxRows}
  /\ n_estimators \in 0..MaxK
  /\ max_samples \in 0..MaxRows
  /\ oob_score \in BOOLEAN
  /\ drawn = [i \in 1..MaxK |-> <<>>]
  /\ ens = [o \in Objs |-> New]
  /\ vClasses = <<>>
  /\ vPreds = <<>>
  /\ vOut = <<>>
  /\ x_test = {}
  /\ y_pred = <<>>
  /\ importances = <<>>
  /\ sorted_idx = <<>>
  /\ chart = <<>>

Next ==
  \/ Fit
  \/ \E i \in 1..n_estimators : BuildEstimator(i)
  \/ \E i \in 1..n_estimators : BuildEstimatorRaises(i)
  \/ FitReduce

Spec == Init /\ [][Next]_vars

\* ------------------------------------------------ aggregation on its own
\* The inputs of one prediction: the training label set, and the probability
\* vector each of the K predictors returns for the instance.
VoteInit ==
  /\ y_train = <<>>
  /\ n_estimators = 0
  /\ max_samples = 0
  /\ oob_score = FALSE
  /\ drawn = [i \in 1..MaxK |-> <<>>]
  /\ ens = [o \in Objs |-> [status |-> "new", done |-> <<>>, inOrder |-> TRUE,
                            raised |-> {}, estimators_ |-> <<>>, oob |-> <<>>]]
  /\ vClasses \in {SortSet(S) : S \in (SUBSET Labels) \ {{}}}
  /\ vPreds \in UNION {[1..k -> ProbaVecs(Len(vClasses))] : k \in 1..MaxVoters}
  /\ vOut = [bag |-> <<>>, hard |-> <<>>, soft |-> <<>>]
  /\ x_test = {}
  /\ y_pred = <<>>
  /\ importances = <<>>
  /\ sorted_idx = <<>>
  /\ chart = <<>>

\* bag_clf.predict(x)
PredictBagging ==
  /\ vOut.bag = <<>>
  /\ vOut' = [vOut EXCEPT !.bag = <<BaggingPredict(vClasses, vPreds)>>]
  /\ UNCHANGED <<vClasses, vPreds>>
  /\ UNCHANGED trainVars
  /\ UNCHANGED useVars
  /\ UNCHANGED plotVars

\* voting_hard_clf.predict(x)
PredictHard ==
  /\ vOut.hard = <<>>
  /\ vOut' = [vOut EXCEPT !.hard = <<VotingHard(vClasses, vPreds)>>]
  /\ UNCHANGED <<vClasses, vPreds>>
  /\ UNCHANGED trainVars
  /\ UNCHANGED useVars
  /\ UNCHANGED plotVars

\* voting_soft_clf.predict(x)
PredictSoft ==
  /\ vOut.soft = <<>>
  /\ vOut' = [vOut EXCEPT !.soft = <<VotingSoft(vClasses, vPreds)>>]
  /\ UNCHANGED <<vClasses, vPreds>>
  /\ UNCHANGED trainVars
  /\ UNCHANGED useVars
  /\ UNCHANGED plotVars

VoteNext == PredictBagging \/ PredictHard \/ PredictSoft

SpecVote == VoteInit /\ [][VoteNext]_vars

\* ================================================================ claims
Fitted(o) == ens[o].status = "fitted"
Ests(o) == ens[o].estimators_
Scored(o) == Fitted(o) /\ ens[o].oob # <<>>
Oob(o) == ens[o].oob[1]

\* The predictors of o for which row r is out-of-bag, and their votes for c.
OobSubset(o, r) == {i \in 1..Len(Ests(o)) : Ests(o)[i].bag[r] = 0}
OobVotes(o, r, c) == Cardinality({i \in OobSubset(o, r) : Ests(o)[i].tree[r] = c})

\* The class the out-of-bag predictors of r elect: most votes, lowest class
\* index among equals (class 1 when nobody votes).
OobElected(o, r) ==
  CHOOSE c \in 1..NC :
    /\ \A d \in 1..NC : OobVotes(o, r, d) <= OobVotes(o, r, c)
    /\ \A d \in 1..(c - 1) : OobVotes(o, r, d) < OobVotes(o, r, c)

\* The prediction of the fitted ensemble o for instance x.
EnsemblePredict(o, x) ==
  BaggingPredict(classes_, [i \in 1..Len(Ests(o)) |-> OneHot(NC, Ests(o)[i].tree[x])])

\* C1: a successful fit leaves exactly n_estimators (predictor, bootstrap
\* sample) pairs: every predictor is a tree fitted on the sample stored with it,
\* every sample has max_samples draws, and no sample (sub-stream) belongs to
\* two predictors.
C1_ExactlyKPairs ==
  \A o \in Objs : Fitted(o) =>
    /\ Len(Ests(o)) = n_estimators
    /\ \A i \in 1..Len(Ests(o)) :
         /\ SumTo(Ests(o)[i].bag, N) = max_samples
         /\ Ests(o)[i].tree \in TreesOf(Ests(o)[i].bag)
    /\ \A i, j \in 1..Len(Ests(o)) : Ests(o)[i].stream = Ests(o)[j].stream => i = j
    /\ {Ests(o)[i].stream : i \in 1..Len(Ests(o))} = 1..n_estimators

C1_Witness ==
  \E o \in Objs :
    /\ Fitted(o)
    /\ n_estimators >= 2
    /\ Ests(o)[1].bag # Ests(o)[2].bag

\* C4: fit with n_estimators < 1, max_samples < 1 or an empty training set
\* fails (the error is what the caller gets) and leaves no predictor, no
\* bootstrap sample, no OOB score and no fitted ensemble.
C4_InvalidConfigFails ==
  \A o \in Objs :
    ((n_estimators < 1 \/ max_samples < 1 \/ N = 0) /\ ens[o].status # "new") =>
      /\ ens[o].status = "error"
      /\ ens[o].estimators_ = <<>>
      /\ ens[o].oob = <<>>
      /\ \A i \in 1..n_estimators : ens[o].done[i] = <<>>

C4_Witness ==
  \E o \in Objs :
    /\ ens[o].status = "error"
    /\ n_estimators < 1
    /\ N > 0
    /\ max_samples >= 1

\* C5: in the OOB score, the votes counted for row r are exactly the votes of
\* the predictors whose bootstrap sample does not contain r; a predictor that
\* drew r contributes nothing for r.
C5_OobOnlyOutOfBag ==
  \A o \in Objs : Scored(o) =>
    \A r \in 1..N : \A c \in 1..NC :
      Oob(o).predictions[r][c] = Scale * OobVotes(o, r, c)

C5_Witness ==
  \E o \in Objs :
    /\ Scored(o)
    /\ \E r \in 1..N : \E i, j \in 1..Len(Ests(o)) :
         /\ Ests(o)[i].bag[r] > 0
         /\ Ests(o)[j].bag[r] = 0
         /\ Ests(o)[i].tree[r] # Ests(o)[j].tree[r]

\* Some predictor of the collection drew every row.
SomeSeesAll(ests) == \E i \in 1..Len(ests) : \A r \in 1..N : ests[i].bag[r] > 0

\* C6 as stated: the accuracy is taken over the rows with a non-empty
\* out-of-bag subset only (rows without one are skipped).
C6_SkippedRowsExcluded ==
  \A o \in Objs : Scored(o) =>
    Oob(o).total = Cardinality({r \in 1..N : OobSubset(o, r) # {}})

\* C6 as amended: when some predictor drew every row, the score fails (fit
\* raises and no score exists). Otherwise oob_score_ is the accuracy over
\* all N rows; a row with an empty out-of-bag subset is not skipped but
\* predicted as the first class, so it counts as correct exactly when its
\* label is the first class; the only report is a warning, raised exactly
\* when such a row exists.
C6_AllRowsScored ==
  \A o \in Objs :
    /\ (oob_score /\ Finished(o) /\ Ests(o) # <<>>) =>
         IF SomeSeesAll(Ests(o))
         THEN ens[o].status = "error" /\ ens[o].oob = <<>>
         ELSE Scored(o)
    /\ Scored(o) =>
         /\ Oob(o).total = N
         /\ Oob(o).correct =
              Cardinality({r \in 1..N : OobSubset(o, r) # {} /\ OobElected(o, r) = yEnc[r]})
              + Cardinality({r \in 1..N : OobSubset(o, r) = {} /\ yEnc[r] = 1})
         /\ Oob(o).warned <=> (\E r \in 1..N : OobSubset(o, r) = {})

\* A score that counts a row nobody left out, whose label is not the first
\* class, next to a row that has out-of-bag predictors.
C6_Witness ==
  \E o \in Objs :
    /\ Scored(o)
    /\ \E r \in 1..N : OobSubset(o, r) = {} /\ yEnc[r] # 1
    /\ \E r \in 1..N : OobSubset(o, r) # {}
    /\ Oob(o).total = N
    /\ Oob(o).warned

\* The case of C7: one predictor whose bootstrap sample holds every row, the
\* parallel loop over.
SeesAll(o) ==
  /\ n_estimators = 1
  /\ oob_score
  /\ max_samples = N
  /\ Finished(o)
  /\ ens[o].done[1] # <<>>
  /\ \A r \in 1..N : ens[o].done[1][1].bag[r] > 0

\* C7: with one predictor that saw every row, the out-of-bag score fails:
\* fit raises, and no score, no vote and no warning exists (so no score over
\* rows without out-of-bag predictors is returned).
C7_RaisesWhenAllSeen ==
  \A o \in Objs : SeesAll(o) =>
    /\ ens[o].status = "error"
    /\ ens[o].oob = <<>>

\* The single predictor drew both rows of a two-class training set and the
\* fit has ended in the error.
C7_Witness ==
  \E o \in Objs :
    /\ SeesAll(o)
    /\ N >= 2
    /\ y_train[1] # y_train[2]
    /\ ens[o].status = "error"
    /\ Len(Ests(o)) = 1

\* C11: fit is fail-fast and has no other policy. When the task of one
\* estimator raises, whatever the other tasks have built, fit fails as a
\* whole and the object holds no predictor; a fitted ensemble holds all
\* n_estimators predictors, every one of them returned by its task, and no
\* state holds a collection of fewer than n_estimators predictors.
C11_FailFast ==
  \A o \in Objs :
    /\ ens[o].raised # {} =>
         /\ ens[o].status = "error"
         /\ Ests(o) = <<>>
         /\ ens[o].oob = <<>>
    /\ Fitted(o) =>
         /\ ens[o].raised = {}
         /\ Len(Ests(o)) = n_estimators
         /\ \A i \in 1..n_estimators : ens[o].done[i] = <<Ests(o)[i]>>
    /\ Ests(o) # <<>> => Len(Ests(o)) = n_estimators

\* The task of one estimator raised after the task of another had returned.
C11_Witness ==
  /\ ens["bag_clf"].raised # {}
  /\ n_estimators >= 2
  /\ NDone("bag_clf") >= 1
  /\ ens["bag_clf"].status = "error"

\* What building the estimators 1..K one after the other, each from its
\* sub-stream, gives under the sub-streams of this run.
SequentialResults ==
  {[k \in 1..n_estimators |-> Built(StreamIndex(k, k - 1), es[k])] :
     es \in SeqDraws(n_estimators)}

\* C8: whatever order the per-estimator tasks of the parallel fit complete
\* in, the fitted collection holds at position i the predictor and sample of
\* sub-stream i, and is the collection that building 1..K in order gives.
C8_OrderIndependent ==
  Fitted("bag_clf") =>
    /\ \A i \in 1..n_estimators :
         /\ Ests("bag_clf")[i].stream = i
         /\ drawn[i] = <<[bag |-> Ests("bag_clf")[i].bag,
                          tree |-> Ests("bag_clf")[i].tree]>>
    /\ SequentialResults = {Ests("bag_clf")}

\* A parallel fit whose tasks completed out of order, with different samples.
C8_Witness ==
  /\ Fitted("bag_clf")
  /\ ~ens["bag_clf"].inOrder
  /\ Ests("bag_clf")[1].bag # Ests("bag_clf")[2].bag

\* ---------------------------------------------------- claims on aggregation
VoteNC == Len(vClasses)
TrainingLabels == {vClasses[k] : k \in 1..VoteNC}

\* The label predictor i votes for, and the number of votes per class index.
VoteOf(i) == CHOOSE c \in 1..VoteNC :
  (\A d \in 1..VoteNC : vPreds[i][d] <= vPreds[i][c]) /\ (\A d \in 1..(c - 1) : vPreds[i][d] < vPreds[i][c])
VotesFor(c) == Cardinality({i \in 1..Len(vPreds) : VoteOf(i) = c})

\* The mean probability of class c over the predictors, times their number.
MeanTimesK(c) == SumTo([i \in 1..Len(vPreds) |-> vPreds[i][c]], Len(vPreds))

\* Every predictor puts probability 1 on the label it predicts.
AllOneHot == \A i \in 1..Len(vPreds) : \E c \in 1..VoteNC : vPreds[i][c] = Scale

\* label is the mode of the votes, the lowest class index among tied modes.
IsModeLowestIndex(label) ==
  \E k \in 1..VoteNC :
    /\ vClasses[k] = label
    /\ \A d \in 1..VoteNC : VotesFor(d) <= VotesFor(k)
    /\ \A d \in 1..(k - 1) : VotesFor(d) < VotesFor(k)

\* label has the highest mean probability, the lowest class index among equals.
IsHighestMeanLowestIndex(label) ==
  \E k \in 1..VoteNC :
    /\ vClasses[k] = label
    /\ \A d \in 1..VoteNC : MeanTimesK(d) <= MeanTimesK(k)
    /\ \A d \in 1..(k - 1) : MeanTimesK(d) < MeanTimesK(k)

\* C2 as stated: bagging's predict returns the mode of the K predicted labels,
\* the lowest label index on a tie, and a label of the training label set.
C2_PredictIsMode ==
  vOut.bag # <<>> =>
    /\ vOut.bag[1] \in TrainingLabels
    /\ IsModeLowestIndex(vOut.bag[1])

\* C2 as amended: bagging's predict returns the class of highest mean predicted
\* probability over the K predictors, the lowest class index on a tie; it is a
\* training label, and it is the mode of the K predicted labels (lowest index
\* on a tie) whenever every predictor's probability vector is one-hot.
C2_PredictIsHighestMean ==
  vOut.bag # <<>> =>
    /\ vOut.bag[1] \in TrainingLabels
    /\ IsHighestMeanLowestIndex(vOut.bag[1])
    /\ AllOneHot => IsModeLowestIndex(vOut.bag[1])

\* One-hot predictors whose votes tie between the second and the third class:
\* the tie goes to the lower index of the two.
C2_Witness ==
  /\ vOut.bag # <<>>
  /\ AllOneHot
  /\ VoteNC = 3
  /\ VotesFor(1) = 0
  /\ VotesFor(2) = 1
  /\ VotesFor(3) = 1
  /\ vOut.bag[1] = vClasses[2]

\* C9: soft voting returns a class of highest average probability, and agrees
\* with hard voting when every predictor's probability vector is one-hot.
C9_SoftVoting ==
  vOut.soft # <<>> =>
    /\ \E k \in 1..VoteNC :
         /\ vClasses[k] = vOut.soft[1]
         /\ \A d \in 1..VoteNC : MeanTimesK(d) <= MeanTimesK(k)
    /\ (AllOneHot /\ vOut.hard # <<>>) => vOut.soft[1] = vOut.hard[1]

C9_Witness ==
  /\ vOut.soft # <<>>
  /\ vOut.hard # <<>>
  /\ AllOneHot
  /\ Len(vPreds) >= 3
  /\ \E i, j \in 1..Len(vPreds) : VoteOf(i) # VoteOf(j)
  /\ vOut.soft[1] = vOut.hard[1]
  /\ vOut.soft[1] # vClasses[1]

\* ============================================ the bag_tree / bag_log cell
\* One cell binds X_train, y_train, X_test to the split of
\* make_moons(n_samples=300), fits bag_tree (decision trees) without n_jobs,
\* predicts with it on X_train and on X_test, then fits bag_log (logistic
\* regressions) with the same data, random_state and max_samples and predicts
\* with it on both. A statement that raises ends the cell.
UseObjs == {"bag_tree", "bag_log"}

\* The fit of one base estimator raises: LogisticRegression().fit rejects
\* training labels of fewer than two classes (the labels reach it whole, the
\* bootstrap sample as sample weights); DecisionTreeClassifier().fit accepts
\* them.
BaseFitRaises(base, lab) == base = "LogisticRegression" /\ Len(ClassesOf(lab)) < 2

\* The fitted ensemble after a predict call: predict assigns no attribute.
AfterPredict(e) == e

\* bag_tree.fit(X_train, y_train): validation, the estimators built one after
\* the other, the reduction.
FitBagTree ==
  /\ ens["bag_tree"].status = "new"
  /\ IF Invalid(n_estimators, max_samples, N)
     THEN /\ ens' = [ens EXCEPT !["bag_tree"].status = "error"]
          /\ UNCHANGED drawn
     ELSE \E es \in SeqDraws(n_estimators) :
            /\ drawn' = [i \in 1..MaxK |->
                 IF i <= n_estimators THEN <<es[i]>> ELSE drawn[i]]
            /\ ens' = [ens EXCEPT !["bag_tree"] =
                 Reduced([k \in 1..n_estimators |-> <<Built(k, es[k])>>], TRUE)]
  /\ UNCHANGED <<y_train, n_estimators, max_samples, oob_score>>
  /\ UNCHANGED <<voteVars, useVars, plotVars>>

\* y_pred_bag_train = bag_tree.predict(X_train)
PredictTrain ==
  /\ Fitted("bag_tree")
  /\ y_pred.y_pred_bag_train = <<>>
  /\ y_pred' = [y_pred EXCEPT !.y_pred_bag_train =
                  <<[r \in Instances |-> EnsemblePredict("bag_tree", r)]>>]
  /\ ens' = [ens EXCEPT !["bag_tree"] = AfterPredict(@)]
  /\ UNCHANGED <<y_train, n_estimators, max_samples, oob_score, drawn, x_test>>
  /\ UNCHANGED <<voteVars, plotVars>>

\* y_pred_bag = bag_tree.predict(X_test)
PredictTest ==
  /\ Fitted("bag_tree")
  /\ y_pred.y_pred_bag_train # <<>>
  /\ y_pred.y_pred_bag = <<>>
  /\ y_pred' = [y_pred EXCEPT !.y_pred_bag =
                  <<[x \in x_test |-> EnsemblePredict("bag_tree", x)]>>]
  /\ ens' = [ens EXCEPT !["bag_tree"] = AfterPredict(@)]
  /\ UNCHANGED <<y_train, n_estimators, max_samples, oob_score, drawn, x_test>>
  /\ UNCHANGED <<voteVars, plotVars>>

\* The predictors of a fitted ensemble that are averaged for each instance
\* of xs: all of them. The coefficients of the regressions are not modelled,
\* a result records the sub-streams of the predictors consulted.
Consulted(e, xs) ==
  [x \in xs |-> {e.estimators_[k].stream : k \in 1..Len(e.estimators_)}]

\* bag_log.fit(X_train, y_train): the same validation and the same
\* sub-streams as bag_tree (same random_state), of which an estimator takes
\* its bootstrap sample; the first estimator whose fit raises ends the call.
FitBagLog ==
  /\ ens["bag_log"].status = "new"
  /\ y_pred.y_pred_bag # <<>>
  /\ IF Invalid(n_estimators, max_samples, N)
     THEN ens' = [ens EXCEPT !["bag_log"] = [New EXCEPT !.status = "error"]]
     ELSE IF BaseFitRaises("LogisticRegression", y_train)
     THEN ens' = [ens EXCEPT !["bag_log"] = FailFast(New, 1)]
     ELSE \E es \in SeqDraws(n_estimators) :
            ens' = [ens EXCEPT !["bag_log"] =
              [New EXCEPT !.status = "fitted",
                          !.estimators_ = [k \in 1..n_estimators |->
                             [stream |-> StreamIndex(k, k - 1), bag |-> es[k].bag]]]]
  /\ UNCHANGED <<y_train, n_estimators, max_samples, oob_score, drawn>>
  /\ UNCHANGED <<voteVars, useVars, plotVars>>

\* y_pred_bag_log_train = bag_log.predict(X_train)
PredictLogTrain ==
  /\ Fitted("bag_log")
  /\ y_pred.y_pred_bag_log_train = <<>>
  /\ y_pred' = [y_pred EXCEPT !.y_pred_bag_log_train =
                  <<Consulted(ens["bag_log"], Instances)>>]
  /\ ens' = [ens EXCEPT !["bag_log"] = AfterPredict(@)]
  /\ UNCHANGED <<y_train, n_estimators, max_samples, oob_score, drawn, x_test>>
  /\ UNCHANGED <<voteVars, plotVars>>

\* y_pred_bag_log = bag_log.predict(X_test)
PredictLogTest ==
  /\ Fitted("bag_log")
  /\ y_pred.y_pred_bag_log_train # <<>>
  /\ y_pred.y_pred_bag_log = <<>>
  /\ y_pred' = [y_pred EXCEPT !.y_pred_bag_log =
                  <<Consulted(ens["bag_log"], x_test)>>]
  /\ ens' = [ens EXCEPT !["bag_log"] = AfterPredict(@)]
  /\ UNCHANGED <<y_train, n_estimators, max_samples, oob_score, drawn, x_test>>
  /\ UNCHANGED <<voteVars, plotVars>>

UseInit ==
  /\ y_train \in {<<>>} \cup UNION {[1..n -> MoonLabels] : n \in 1..MaxRows}
  /\ n_estimators \in 0..MaxK
  /\ max_samples \in 0..MaxRows
  /\ oob_score = FALSE
  /\ drawn = [i \in 1..MaxK |-> <<>>]
  /\ ens = [o \in UseObjs |-> New]
  /\ vClasses = <<>>
  /\ vPreds = <<>>
  /\ vOut = <<>>
  /\ x_test = {Len(y_train) + 1}
  /\ y_pred = [y_pred_bag_train |-> <<>>, y_pred_bag |-> <<>>,
               y_pred_bag_log_train |-> <<>>, y_pred_bag_log |-> <<>>]
  /\ importances = <<>>
  /\ sorted_idx = <<>>
  /\ chart = <<>>

UseNext ==
  \/ FitBagTree
  \/ PredictTrain
  \/ PredictTest
  \/ FitBagLog
  \/ PredictLogTrain
  \/ PredictLogTest

SpecUse == UseInit /\ [][UseNext]_vars

\* =========================================== the feature-importance chart
\* iris.feature_names: the names of the columns of X, in column order.
feature_names ==
  <<"sepal length (cm)", "sepal width (cm)", "petal length (cm)", "petal width (cm)">>

\* range(X.shape[1]), as 1-based positions.
Positions == 1..Len(feature_names)

\* np.argsort(v): the positions of v in ascending order of value. The order
\* of equal values is not fixed by the default sort kind.
ArgSorts(v) ==
  {p \in [Positions -> Positions] :
     /\ \A i, j \in Positions : i # j => p[i] # p[j]
     /\ \A i, j \in Positions : i < j => v[p[i]] <= v[p[j]]}

\* sorted_idx = np.argsort(importances)
ArgSort ==
  /\ sorted_idx = <<>>
  /\ sorted_idx' \in ArgSorts(importances)
  /\ UNCHANGED <<importances, chart>>
  /\ UNCHANGED <<trainVars, voteVars, useVars>>

\* plt.barh(range(X.shape[1]), importances[sorted_idx], align='center')
\* plt.yticks(range(X.shape[1]), iris.feature_names)
PlotImportances ==
  /\ sorted_idx # <<>>
  /\ chart = <<>>
  /\ chart' = <<[bars |-> [i \in Positions |-> importances[sorted_idx[i]]],
                 ticks |-> [i \in Positions |-> feature_names[i]]]>>
  /\ UNCHANGED <<importances, sorted_idx>>
  /\ UNCHANGED <<trainVars, voteVars, useVars>>

\* After rf.fit(X, y): importances = rf.feature_importances_, one
\* non-negative weight per column, in units of their sum.
PlotInit ==
  /\ y_train = <<>>
  /\ n_estimators = 0
  /\ max_samples = 0
  /\ oob_score = FALSE
  /\ drawn = [i \in 1..MaxK |-> <<>>]
  /\ ens = [o \in Objs |-> [status |-> "new", done |-> <<>>, inOrder |-> TRUE,
                            raised |-> {}, estimators_ |-> <<>>, oob |-> <<>>]]
  /\ vClasses = <<>>
  /\ vPreds = <<>>
  /\ vOut = <<>>
  /\ x_test = {}
  /\ y_pred = <<>>
  /\ importances \in [Positions -> 0..MaxImp]
  /\ sorted_idx = <<>>
  /\ chart = <<>>

PlotNext == ArgSort \/ PlotImportances

SpecPlot == PlotInit /\ [][PlotNext]_vars

\* C13: in the chart, the bar at every position shows the importance of the
\* feature sorted_idx puts there, in ascending order, and the tick label at
\* that position is the name of that same feature (features of equal
\* importance, which argsort may put in either order, are not told apart:
\* the label must name a feature whose importance the bar displays).
C13_BarsLabelledWithOwnFeature ==
  chart # <<>> =>
    \A i \in Positions :
      /\ chart[1].bars[i] = importances[sorted_idx[i]]
      /\ \A j \in Positions : i < j => chart[1].bars[i] <= chart[1].bars[j]
      /\ \E f \in Positions :
           /\ importances[f] = importances[sorted_idx[i]]
           /\ chart[1].ticks[i] = feature_names[f]
====
